---- MODULE Spec2Model ----
(***************************************************************************)
(* Model of analyze_valorant.py: the retry/fallback model caller           *)
(* (call_gemini_json_with_retry), the response recovery ladder             *)
(* (try_parse_or_coerce and its helpers) and the two-phase pipeline (main).*)
(*                                                                         *)
(* Python strings are sequences of one-character strings.  Python values   *)
(* produced by json.loads are tagged records (see the json section).       *)
(***************************************************************************)
EXTENDS Integers, Sequences, FiniteSets, TLC

Min(a, b) == IF a <= b THEN a ELSE b
Max(a, b) == IF a >= b THEN a ELSE b

\* ------------------------------------------------------------------------
\* Bounds of the model (not program constants)
\* ------------------------------------------------------------------------
\* how many trailing characters a response text may have lost
MaxCut == 3
\* largest max_retries argument explored for a stand-alone call
MaxRetriesBound == 3
\* events per input sequence, distinct timestamps, largest max_items
MaxEvents == 4
MaxTs == 2
MaxItemsBound == 3
\* candidates handed to stage 3
MaxCands == 3

\* ------------------------------------------------------------------------
\* Program constants
\* ------------------------------------------------------------------------
\* max_retries: int = 2 (the default main() relies on)
DEFAULT_MAX_RETRIES == 2
\* delay = 20
DEFAULT_DELAY == 20
\* min(int(delay), 60)
MAX_SLEEP == 60

\* "pro", the marker of the higher tier
PRO == <<"p", "r", "o">>
\* "gemini-1.5-flash", the fallback model
FLASH_MODEL == <<"g","e","m","i","n","i","-","1",".","5","-","f","l","a","s","h">>
\* other model identifiers a caller / MODEL_NAME may name
PRO_MODEL == <<"g","e","m","i","n","i","-","1",".","5","-","p","r","o">>
PRO_VISION_MODEL == <<"g","e","m","i","n","i","-","p","r","o","-","v">>
FLASH2_MODEL == <<"g","e","m","i","n","i","-","2","-","f","l","a","s","h">>
ModelNames == {PRO_MODEL, FLASH_MODEL, PRO_VISION_MODEL, FLASH2_MODEL}

\* retry_delay.seconds values the server may suggest
Delays == {0, 5, 61}

\* Python `sub in s` on strings
StrIn(sub, s) ==
    \E i \in 0..(Len(s) - Len(sub)) : SubSeq(s, i + 1, i + Len(sub)) = sub

\* `"pro" in curr_model`
IsPro(m) == StrIn(PRO, m)

\* ------------------------------------------------------------------------
\* Python values as json.loads builds them
\* ------------------------------------------------------------------------
\* Texts are written over the alphabet  a-z 0-9 { } [ ] , : " ` space \n .
\* Backslash, sign, decimal point and upper-case letters do not occur, so
\* string escapes, negative numbers, fractions and NaN/Infinity are not
\* modelled.
PyNone == [t |-> "null"]
PyBool(b) == [t |-> "bool", v |-> b]
PyNum(n, isFloat) == [t |-> "num", v |-> n, f |-> isFloat]
PyStr(s) == [t |-> "str", v |-> s]
PyList(elems) == [t |-> "arr", v |-> elems]
\* a dict is a function from its keys (strings) to values
PyDict(f) == [t |-> "obj", v |-> f]
EmptyDict == [k \in {} |-> PyNone]
DictSet(f, k, val) == [x \in (DOMAIN f) \cup {k} |-> IF x = k THEN val ELSE f[x]]

IsDict(o) == o.t = "obj"
\* k in d, d[k] for a dict d
HasKey(o, k) == k \in DOMAIN o.v
GetKey(o, k) == o.v[k]

JSON_KEY == <<"j", "s", "o", "n">>
STORY == <<"s", "t", "o", "r", "y">>
COACHING == <<"c", "o", "a", "c", "h", "i", "n", "g">>
HIGHLIGHTS == <<"h", "i", "g", "h", "l", "i", "g", "h", "t", "s">>
METRICS == <<"m", "e", "t", "r", "i", "c", "s">>
\* expected = {"story", "coaching", "highlights", "metrics"}
Expected == {STORY, COACHING, HIGHLIGHTS, METRICS}

Whitespace == {" ", "\n"}
Digits == {"0", "1", "2", "3", "4", "5", "6", "7", "8", "9"}
DigitVal(c) ==
    CASE c = "0" -> 0 [] c = "1" -> 1 [] c = "2" -> 2 [] c = "3" -> 3
      [] c = "4" -> 4 [] c = "5" -> 5 [] c = "6" -> 6 [] c = "7" -> 7
      [] c = "8" -> 8 [] c = "9" -> 9

\* s[i:i+1] with 1-based i: "" beyond the end
At(s, i) == IF i >= 1 /\ i <= Len(s) THEN s[i] ELSE ""
\* s[i:i+n] with 1-based i
Slice(s, i, n) == SubSeq(s, i, Min(Len(s), i + n - 1))

\* str.count(c)
Count(s, c) == Cardinality({i \in 1..Len(s) : s[i] = c})

\* str.strip()
RECURSIVE LStripIdx(_, _)
LStripIdx(s, i) ==
    IF i <= Len(s) /\ s[i] \in Whitespace THEN LStripIdx(s, i + 1) ELSE i
RECURSIVE RStripIdx(_, _)
RStripIdx(s, j) ==
    IF j >= 1 /\ s[j] \in Whitespace THEN RStripIdx(s, j - 1) ELSE j
Strip(s) ==
    LET i == LStripIdx(s, 1)
    IN  IF i > Len(s) THEN <<>> ELSE SubSeq(s, i, RStripIdx(s, Len(s)))

\* ------------------------------------------------------------------------
\* json.loads
\* ------------------------------------------------------------------------
ParseFail == [ok |-> FALSE, val |-> PyNone, pos |-> 0]
ParseOk(v, p) == [ok |-> TRUE, val |-> v, pos |-> p]

\* WHITESPACE.match(s, i).end()
SkipWs(s, i) == LStripIdx(s, i)

\* scanstring: s[i] is the first character after the opening quote
RECURSIVE StringEnd(_, _)
StringEnd(s, i) ==
    IF i > Len(s) THEN 0
    ELSE IF s[i] = "\"" THEN i
    ELSE IF s[i] = "\n" THEN 0
    ELSE StringEnd(s, i + 1)
py_scanstring(s, i) ==
    LET j == StringEnd(s, i)
    IN  IF j = 0 THEN ParseFail ELSE ParseOk(SubSeq(s, i, j - 1), j + 1)

\* NUMBER_RE: (0|[1-9]\d*) followed by an optional exponent e\d+
RECURSIVE DigitsEnd(_, _)
DigitsEnd(s, i) == IF At(s, i) \in Digits THEN DigitsEnd(s, i + 1) ELSE i
RECURSIVE DigitsValue(_, _, _)
DigitsValue(s, i, j) ==
    IF j < i THEN 0 ELSE 10 * DigitsValue(s, i, j - 1) + DigitVal(s[j])
RECURSIVE Pow10(_)
Pow10(n) == IF n = 0 THEN 1 ELSE 10 * Pow10(n - 1)
match_number(s, i) ==
    LET e == IF s[i] = "0" THEN i + 1 ELSE DigitsEnd(s, i)
        int == DigitsValue(s, i, e - 1)
    IN  IF At(s, e) = "e" /\ At(s, e + 1) \in Digits
        THEN LET e2 == DigitsEnd(s, e + 1)
             IN  ParseOk(PyNum(int * Pow10(DigitsValue(s, e + 1, e2 - 1)), TRUE), e2)
        ELSE ParseOk(PyNum(int, FALSE), e)

RECURSIVE scan_once(_, _)
RECURSIVE JSONObjectLoop(_, _, _)
RECURSIVE JSONArrayLoop(_, _, _)

\* JSONObject: i is the index after the opening brace
JSONObject(s, i) ==
    LET j == SkipWs(s, i)
    IN  IF At(s, j) = "}" THEN ParseOk(PyDict(EmptyDict), j + 1)
        ELSE IF At(s, j) # "\"" THEN ParseFail
        ELSE JSONObjectLoop(s, j, EmptyDict)

\* one "key": value pair; j is the index of the key's opening quote
JSONObjectLoop(s, j, acc) ==
    LET k == py_scanstring(s, j + 1)
    IN  IF ~k.ok THEN ParseFail
        ELSE LET c == SkipWs(s, k.pos)
             IN  IF At(s, c) # ":" THEN ParseFail
                 ELSE LET v == scan_once(s, SkipWs(s, c + 1))
                      IN  IF ~v.ok THEN ParseFail
                          ELSE LET acc2 == DictSet(acc, k.val, v.val)
                                   e == SkipWs(s, v.pos)
                               IN  IF At(s, e) = "}" THEN ParseOk(PyDict(acc2), e + 1)
                                   ELSE IF At(s, e) # "," THEN ParseFail
                                   ELSE LET n == SkipWs(s, e + 1)
                                        IN  IF At(s, n) # "\"" THEN ParseFail
                                            ELSE JSONObjectLoop(s, n, acc2)

\* JSONArray: i is the index after the opening bracket
JSONArray(s, i) ==
    LET j == SkipWs(s, i)
    IN  IF At(s, j) = "]" THEN ParseOk(PyList(<<>>), j + 1)
        ELSE JSONArrayLoop(s, j, <<>>)

\* one element; j is the index where the element starts
JSONArrayLoop(s, j, acc) ==
    LET v == scan_once(s, j)
    IN  IF ~v.ok THEN ParseFail
        ELSE LET acc2 == Append(acc, v.val)
                 e == SkipWs(s, v.pos)
             IN  IF At(s, e) = "]" THEN ParseOk(PyList(acc2), e + 1)
                 ELSE IF At(s, e) # "," THEN ParseFail
                 ELSE JSONArrayLoop(s, SkipWs(s, e + 1), acc2)

scan_once(s, i) ==
    LET c == At(s, i)
    IN  IF c = "\"" THEN
            LET r == py_scanstring(s, i + 1)
            IN  IF r.ok THEN ParseOk(PyStr(r.val), r.pos) ELSE ParseFail
        ELSE IF c = "{" THEN JSONObject(s, i + 1)
        ELSE IF c = "[" THEN JSONArray(s, i + 1)
        ELSE IF c = "n" /\ Slice(s, i, 4) = <<"n", "u", "l", "l">>
            THEN ParseOk(PyNone, i + 4)
        ELSE IF c = "t" /\ Slice(s, i, 4) = <<"t", "r", "u", "e">>
            THEN ParseOk(PyBool(TRUE), i + 4)
        ELSE IF c = "f" /\ Slice(s, i, 5) = <<"f", "a", "l", "s", "e">>
            THEN ParseOk(PyBool(FALSE), i + 5)
        ELSE IF c \in Digits THEN match_number(s, i)
        ELSE ParseFail

\* json.loads(s): [ok, val]; ok = FALSE stands for JSONDecodeError
json_loads(s) ==
    LET r == scan_once(s, SkipWs(s, 1))
    IN  IF r.ok /\ SkipWs(s, r.pos) = Len(s) + 1
        THEN [ok |-> TRUE, val |-> r.val]
        ELSE [ok |-> FALSE, val |-> PyNone]

\* ------------------------------------------------------------------------
\* extract_top_level_json, find_all_top_level_json
\* ------------------------------------------------------------------------
\* the backtick character (a TLA+ string cannot hold one, so ' stands for it)
Tick == "'"
FENCE == <<Tick, Tick, Tick>>

StartsWith(s, p) == Slice(s, 1, Len(p)) = p
EndsWith(s, p) == Len(s) >= Len(p) /\ SubSeq(s, Len(s) - Len(p) + 1, Len(s)) = p
Drop(s, n) == SubSeq(s, n + 1, Len(s))

\* re.sub(r"^```(?:json)?\s*", "", s)
StripLeadingFence(s) ==
    IF ~StartsWith(s, FENCE) THEN s
    ELSE LET a == Drop(s, 3)
             b == IF StartsWith(a, JSON_KEY) THEN Drop(a, 4) ELSE a
         IN  Drop(b, LStripIdx(b, 1) - 1)

\* re.sub(r"\s*```$", "", s)  (s carries no trailing newline here)
StripTrailingFence(s) ==
    IF ~EndsWith(s, FENCE) THEN s
    ELSE SubSeq(s, 1, RStripIdx(s, Len(s) - 3))

\* s.find(c) as a 1-based index, 0 when absent
FindFrom(s, c, i) ==
    LET S == {j \in i..Len(s) : s[j] = c}
    IN  IF S = {} THEN 0 ELSE CHOOSE j \in S : \A k \in S : j <= k
Find(s, c) == FindFrom(s, c, 1)

\* the first index from i on that holds a brace, 0 when there is none (the
\* scans below change state at braces only)
NextBrace(s, i) ==
    LET S == {j \in i..Len(s) : s[j] \in {"{", "}"}}
    IN  IF S = {} THEN 0 ELSE CHOOSE j \in S : \A k \in S : j <= k

\* the depth scan of extract_top_level_json: index of the closing brace at
\* which depth first returns to zero, 0 if it never does
\* (variant: the first closing brace ends the block, nesting ignored)
ScanClose_FirstClose(s, i0, depth) == FindFrom(s, "}", i0)
RECURSIVE ScanClose(_, _, _)
ScanClose(s, i0, depth) ==
    LET i == NextBrace(s, i0)
    IN  IF i = 0 THEN 0
        ELSE IF s[i] = "{" THEN ScanClose(s, i + 1, depth + 1)
        ELSE IF depth - 1 = 0 THEN i ELSE ScanClose(s, i + 1, depth - 1)

extract_top_level_json(s0) ==
    IF Len(s0) = 0 THEN s0
    ELSE LET s == StripTrailingFence(StripLeadingFence(Strip(s0)))
             start == Find(s, "{")
         IN  IF start = 0 THEN s
             ELSE LET end == ScanClose(s, start, 0)
                  IN  IF end = 0 THEN s ELSE SubSeq(s, start, end)

\* re.sub(r"```(?:json)?", "", s) when tagged, s.replace("```", "") otherwise
\* (i is where the search for the next match starts)
RECURSIVE RemoveFences(_, _, _)
RemoveFences(s, i, tagged) ==
    LET S == {j \in i..Len(s) : Slice(s, j, 3) = FENCE}
    IN  IF S = {} THEN Drop(s, i - 1)
        ELSE LET j == CHOOSE x \in S : \A y \in S : x <= y
                 n == IF tagged /\ Slice(s, j + 3, 4) = JSON_KEY THEN 7 ELSE 3
             IN  SubSeq(s, i, j - 1) \o RemoveFences(s, j + n, tagged)

\* the span scan of find_all_top_level_json
RECURSIVE ScanSpans(_, _, _, _, _)
ScanSpans(s, i0, depth, start, out) ==
    LET i == NextBrace(s, i0)
    IN  IF i = 0 THEN out
        ELSE IF s[i] = "{" THEN
                ScanSpans(s, i + 1, depth + 1, IF depth = 0 THEN i ELSE start, out)
        ELSE IF depth > 0 THEN
                IF depth - 1 = 0 /\ start # 0
                THEN ScanSpans(s, i + 1, 0, 0, Append(out, SubSeq(s, start, i)))
                ELSE ScanSpans(s, i + 1, depth - 1, start, out)
        ELSE ScanSpans(s, i + 1, depth, start, out)

find_all_top_level_json(s0) ==
    LET s == RemoveFences(RemoveFences(Strip(s0), 1, TRUE), 1, FALSE)
    IN  ScanSpans(s, 1, 0, 0, <<>>)

\* ------------------------------------------------------------------------
\* wrap_if_needed, naive_json_repair, try_parse_or_coerce
\* ------------------------------------------------------------------------
\* (variant: every object without a `json` key is wrapped)
wrap_if_needed_NoFieldCheck(obj) ==
    IF IsDict(obj) /\ ~HasKey(obj, JSON_KEY)
    THEN PyDict(DictSet(EmptyDict, JSON_KEY, obj))
    ELSE obj
wrap_if_needed(obj) ==
    IF IsDict(obj) /\ ~HasKey(obj, JSON_KEY) /\ Expected \subseteq DOMAIN obj.v
    THEN PyDict(DictSet(EmptyDict, JSON_KEY, obj))
    ELSE obj

Repeat(c, n) == [i \in 1..n |-> c]

\* (variant: nothing is ever closed)
balance_Zero(cand, open, close) == 0
\* def balance(c): max(0, cand.count(c[0]) - cand.count(c[1]))
balance(cand, open, close) == Max(0, Count(cand, open) - Count(cand, close))

\* returns the parsed value, None (PyNone) on failure
naive_json_repair(trunc) ==
    LET cand0 == Strip(extract_top_level_json(trunc))
    IN  IF Len(cand0) = 0 THEN PyNone
        ELSE LET cand == IF Count(cand0, "\"") % 2 = 1
                         THEN Append(cand0, "\"") ELSE cand0
                 close_braces == balance(cand, "{", "}")
                 close_brackets == balance(cand, "[", "]")
                 cand1 == cand \o Repeat("]", close_brackets) \o Repeat("}", close_braces)
                 cand2 == cand \o Repeat("}", close_braces) \o Repeat("]", close_brackets)
                 r1 == json_loads(cand1)
                 r2 == json_loads(cand2)
             IN  IF r1.ok THEN r1.val
                 ELSE IF r2.ok THEN r2.val
                 ELSE PyNone

\* bool(v)
Truthy(v) ==
    CASE v.t = "null" -> FALSE
      [] v.t = "bool" -> v.v
      [] v.t = "num" -> v.v # 0
      [] v.t = "str" -> Len(v.v) > 0
      [] v.t = "arr" -> Len(v.v) > 0
      [] v.t = "obj" -> DOMAIN v.v # {}

\* (variant: the fields are looked up in obj itself, never under obj.json)
Score_Flat(obj) ==
    LET s0 == IF IsDict(obj) /\ HasKey(obj, JSON_KEY) THEN 2 ELSE 0
    IN  IF IsDict(obj)
        THEN s0 + Cardinality({k \in Expected : HasKey(obj, k)})
        ELSE s0
\* the score of one parsed and normalized candidate (stage 3)
Score(obj) ==
    LET root == IF IsDict(obj)
                THEN (IF HasKey(obj, JSON_KEY) THEN GetKey(obj, JSON_KEY) ELSE obj)
                ELSE PyDict(EmptyDict)
        s0 == IF IsDict(obj) /\ HasKey(obj, JSON_KEY) THEN 2 ELSE 0
    IN  IF IsDict(root)
        THEN s0 + Cardinality({k \in Expected : HasKey(root, k)})
        ELSE s0

\* the loop of stage 3 over the candidates cands[i..]
RECURSIVE PickBest(_, _, _, _)
PickBest(cands, i, best, best_score) ==
    IF i > Len(cands) THEN best
    ELSE LET r == json_loads(cands[i])
         IN  IF ~r.ok THEN PickBest(cands, i + 1, best, best_score)
             ELSE LET obj == wrap_if_needed(r.val)
                      score == Score(obj)
                  IN  IF score > best_score
                      THEN PickBest(cands, i + 1, obj, score)
                      ELSE PickBest(cands, i + 1, best, best_score)

\* the ladder: which stage produced the value, and the value
\* (stage 4 also stands for "all stages failed", with val = None)
recover_ladder(raw_text) ==
    LET r1 == json_loads(raw_text)
    IN  IF r1.ok THEN [stage |-> 1, val |-> wrap_if_needed(r1.val)]
        ELSE LET r2 == json_loads(extract_top_level_json(raw_text))
             IN  IF r2.ok THEN [stage |-> 2, val |-> wrap_if_needed(r2.val)]
                 ELSE LET best == PickBest(find_all_top_level_json(raw_text), 1, PyNone, -1)
                      IN  IF Truthy(best) THEN [stage |-> 3, val |-> best]
                          ELSE [stage |-> 4, val |-> naive_json_repair(raw_text)]

try_parse_or_coerce(raw_text) == recover_ladder(raw_text).val

\* stage 3 as a function of the candidate list: the best candidate, or
\* None when `if best:` does not hold
score_and_pick(cands) ==
    LET best == PickBest(cands, 1, PyNone, -1)
    IN  IF Truthy(best) THEN best ELSE PyNone

\* the four stages one by one: does stage k return, and with what value
\* (stages 1 and 2 return when json.loads does not raise, stage 3 when
\* `best` is truthy, stage 4 always)
\* try: obj = json.loads(..); return wrap_if_needed(obj)  except: pass
Parsed(r) == [ok |-> r.ok, val |-> IF r.ok THEN wrap_if_needed(r.val) ELSE PyNone]
\* if best: return best
Picked(best) == [ok |-> Truthy(best), val |-> best]
StageResult(k, raw_text) ==
    CASE k = 1 -> Parsed(json_loads(raw_text))
      [] k = 2 -> Parsed(json_loads(extract_top_level_json(raw_text)))
      [] k = 3 -> Picked(score_and_pick(find_all_top_level_json(raw_text)))
      [] k = 4 -> [ok |-> TRUE, val |-> naive_json_repair(raw_text)]

\* ------------------------------------------------------------------------
\* Raw texts the external model may answer with
\* ------------------------------------------------------------------------
Quoted(k) == <<"\"">> \o k \o <<"\"">>
\* "k":1
Field(k) == Quoted(k) \o <<":", "1">>
\* {"story":1,"coaching":1,"highlights":1,"metrics":1}
ReportText ==
    <<"{">> \o Field(STORY) \o <<",">> \o Field(COACHING) \o <<",">>
    \o Field(HIGHLIGHTS) \o <<",">> \o Field(METRICS) \o <<"}">>
\* {"json":<inner>}
WrapText(inner) == <<"{">> \o Quoted(JSON_KEY) \o <<":">> \o inner \o <<"}">>

T_Wrapper == WrapText(ReportText)
T_Bare == ReportText
\* ```json\n{"json":{"story":1}}\n```
T_Fenced ==
    FENCE \o JSON_KEY \o <<"\n">> \o WrapText(<<"{">> \o Field(STORY) \o <<"}">>)
    \o <<"\n">> \o FENCE
\* {"json":{"story":1}   (cut before the final brace)
T_Truncated == <<"{">> \o Quoted(JSON_KEY) \o <<":", "{">> \o Field(STORY) \o <<"}">>
T_Garbage == <<"o", "o", "p", "s">>
\* {"story":1}
T_NoJsonKey == <<"{">> \o Field(STORY) \o <<"}">>
T_Number == <<"5">>
T_Zero == <<"0">>
\* "json"
T_StrJson == Quoted(JSON_KEY)
\* ["json"]
T_ListJson == <<"[">> \o Quoted(JSON_KEY) \o <<"]">>
\* {"json":5}
T_JsonNum == WrapText(<<"5">>)

RawTexts ==
    {T_Wrapper, T_Bare, T_Fenced, T_Truncated, T_Garbage, T_NoJsonKey,
     T_Number, T_Zero, T_StrJson, T_ListJson, T_JsonNum}


\* ------------------------------------------------------------------------
\* Texts for the stand-alone runs of the recovery functions
\* ------------------------------------------------------------------------
\* values of the story field: a number, and strings without and with
\* brace / bracket characters inside
StoryValues ==
    {<<"1">>, Quoted(<<"a">>), Quoted(<<"a", "}", "b">>), Quoted(<<"a", "{", "b">>),
     Quoted(<<"a", "[", "b">>), Quoted(<<"a", "]", "b">>)}
\* {"story":v,"coaching":{"k":[1]},"highlights":[{"t":1}],"metrics":{"k":0}}
FullReport(v) ==
    <<"{">> \o Quoted(STORY) \o <<":">> \o v \o <<",">>
    \o Quoted(COACHING) \o <<":", "{", "\"", "k", "\"", ":", "[", "1", "]", "}", ",">>
    \o Quoted(HIGHLIGHTS) \o <<":", "[", "{", "\"", "t", "\"", ":", "1", "}", "]", ",">>
    \o Quoted(METRICS) \o <<":", "{", "\"", "k", "\"", ":", "0", "}", "}">>
FullTexts ==
    {T_Wrapper, T_Bare}
    \cup {WrapText(FullReport(v)) : v \in StoryValues}
    \cup {FullReport(v) : v \in StoryValues}
\* a text that lost its last k characters
CutTexts == {SubSeq(t, 1, Len(t) - k) : t \in FullTexts, k \in 0..MaxCut}

\* {"json":{"story":1}}
T_PartialWrapper == WrapText(T_NoJsonKey)
T_Unparsable == <<"{", "x", "}">>
T_EmptyObject == <<"{", "}">>
\* {"story":v,"coaching":1,"highlights":1,"metrics":1}
ReportTextOf(v) ==
    <<"{">> \o Quoted(STORY) \o <<":">> \o v \o <<",">> \o Field(COACHING) \o <<",">>
    \o Field(HIGHLIGHTS) \o <<",">> \o Field(METRICS) \o <<"}">>
T_Wrapper2 == WrapText(ReportTextOf(<<"2">>))
T_Bare3 == ReportTextOf(<<"3">>)
\* candidate blocks as find_all_top_level_json cuts them out: brace to brace
PickTexts ==
    {T_Wrapper, T_Wrapper2, T_Bare, T_Bare3, T_PartialWrapper, T_NoJsonKey,
     T_Unparsable, T_EmptyObject, T_JsonNum}
Blocks ==
    {T_Wrapper, T_Bare, T_PartialWrapper, T_NoJsonKey, T_Unparsable, T_EmptyObject}
\* two blocks in one response
TwoBlockTexts == {a \o <<" ">> \o b : a \in Blocks, b \in Blocks}
FencedTexts ==
    {FENCE \o JSON_KEY \o <<"\n">> \o b \o <<"\n">> \o FENCE : b \in Blocks}
RecoverTexts == RawTexts \cup CutTexts \cup TwoBlockTexts \cup FencedTexts
\* blocks with text around them: a stray closing brace or prose in front,
\* a stray brace or nothing behind, blanks on both sides
ExtractTexts ==
    RecoverTexts
    \cup {a \o b \o c : a \in {<<"}", " ">>, <<"o", "k", " ">>, <<" ", "\n">>},
                        b \in Blocks \cup {T_Truncated},
                        c \in {<<>>, <<" ", "}">>, <<"\n">>}}

\* ------------------------------------------------------------------------
\* shrink_events
\* ------------------------------------------------------------------------
\* e.get("ts") of an event without a timestamp
NoTs == 0
PROTECTED == {"match_start", "match_end", "plant", "defuse"}
\* the events of the model: ts is NoTs or a timestamp
EventActions == {"kill", "plant"}
Events == [ts : 0..MaxTs, actor : {"p1"}, action : EventActions, target : {"p2"}]
RECURSIVE SeqsUpTo(_, _)
SeqsUpTo(S, n) ==
    IF n = 0 THEN {<<>>}
    ELSE LET shorter == SeqsUpTo(S, n - 1)
         IN  shorter \cup {Append(q, e) : q \in {x \in shorter : Len(x) = n - 1}, e \in S}

\* events[:n] for n >= 0
Take(q, n) == SubSeq(q, 1, Min(Len(q), n))
\* events[k:] for k <= 0: the last -k events, the whole list when k = 0
LastFrom(q, k) ==
    IF k = 0 THEN q ELSE SubSeq(q, Max(1, Len(q) + k + 1), Len(q))
\* -max_items // 2: the minus sign binds first and // rounds down
NegHalf(max_items) == 0 - ((max_items + 1) \div 2)

IsProtected(e) == e.action \in PROTECTED
EventKey(e) == <<e.ts, e.actor, e.action, e.target>>
\* the loop that keeps the first event of every key
RECURSIVE Dedupe(_, _, _, _)
Dedupe(merged, i, seen, uniq) ==
    IF i > Len(merged) THEN uniq
    ELSE IF EventKey(merged[i]) \in seen
         THEN Dedupe(merged, i + 1, seen, uniq)
         ELSE Dedupe(merged, i + 1, seen \cup {EventKey(merged[i])}, Append(uniq, merged[i]))

\* x.get("ts") or "Z": events without ts sort after every timestamp
SortKey(e) == IF e.ts = NoTs THEN MaxTs + 1 ELSE e.ts
\* list.sort(key=...) is stable: e goes after the events whose key is <= its own
InsertSorted(q, e) ==
    LET n == Cardinality({i \in 1..Len(q) : SortKey(q[i]) <= SortKey(e)})
    IN  SubSeq(q, 1, n) \o <<e>> \o SubSeq(q, n + 1, Len(q))
RECURSIVE SortByTs(_, _)
SortByTs(q, n) ==
    IF n = 0 THEN <<>> ELSE InsertSorted(SortByTs(q, n - 1), q[n])

\* (variant: the final slice is left out)
Truncate_None(uniq, max_items) == uniq
\* uniq[:max_items]
Truncate(uniq, max_items) == Take(uniq, max_items)

shrink_events(events, max_items) ==
    IF Len(events) <= max_items THEN events
    ELSE LET head == Take(events, max_items \div 2)
             tail == LastFrom(events, NegHalf(max_items))
             keep == SelectSeq(events, IsProtected)
             uniq == Dedupe(head \o keep \o tail, 1, {}, <<>>)
         IN  Truncate(SortByTs(uniq, Len(uniq)), max_items)

\* ------------------------------------------------------------------------
\* State
\* ------------------------------------------------------------------------
VARIABLES
    model_name,   \* argument model_name of the running call
    max_retries,  \* argument max_retries of the running call
    attempt,      \* local attempt
    curr_model,   \* local curr_model
    callState,    \* "running", "returned" or "raised"
    exc,          \* which exception left the call ("" if none)
    ret,          \* the text the call returned
    log,          \* history of the running call: requests issued and sleeps
    pc,           \* position in main(); "call" for a stand-alone call
    env_model,    \* os.getenv("MODEL_NAME", "gemini-1.5-flash")
    raw,          \* main: raw
    raw2,         \* main: raw2
    wrapper,      \* main: wrapper
    report,       \* report sink: [written, value]
    artifact,     \* gemini_raw_response.txt: [written, content]
    prevCall,     \* summary of the first call once the second has started
    arg,          \* argument of the function under study (stand-alone runs)
    result,       \* what that function returned
    trace         \* try_parse_or_coerce: the stages evaluated so far

callVars == <<model_name, max_retries, attempt, curr_model, callState, exc, ret, log>>
mainVars == <<pc, env_model, raw, raw2, wrapper, report, artifact, prevCall>>
fnVars == <<arg, result, trace>>
vars == <<model_name, max_retries, attempt, curr_model, callState, exc, ret, log,
          pc, env_model, raw, raw2, wrapper, report, artifact, prevCall,
          arg, result, trace>>

\* ------------------------------------------------------------------------
\* call_gemini_json_with_retry
\* ------------------------------------------------------------------------
\* what model.generate_content hands back when it does not raise:
\* resp is None, resp.text is missing/None, or resp.text is a string
Responses ==
    {[kind |-> "none", text |-> <<>>], [kind |-> "notext", text |-> <<>>]}
    \cup {[kind |-> "text", text |-> t] : t \in RawTexts \cup {<<>>}}

\* history entries
ReqEntry(m, a, out, t, hasDelay, d) ==
    [ev |-> "req", model |-> m, attempt |-> a, out |-> out, text |-> t,
     hasDelay |-> hasDelay, d |-> d, secs |-> 0]
SleepEntry(a, n) ==
    [ev |-> "sleep", model |-> <<>>, attempt |-> a, out |-> "", text |-> <<>>,
     hasDelay |-> FALSE, d |-> 0, secs |-> n]

\* (variant: one iteration too many)
LoopGuard_OffByOne(a, mr) == a <= mr + 1
\* while attempt <= max_retries
LoopGuard(a, mr) == a <= mr

\* (variant: only a missing response object counts as empty)
IsEmptyResponse_NoneOnly(r) == r.kind = "none"
\* if not resp or not getattr(resp, "text", None): raise RuntimeError
IsEmptyResponse(r) == r.kind # "text" \/ Len(r.text) = 0

\* (variant: the sleep is not capped)
SleepSecs_Uncapped(hasDelay, d) == IF hasDelay /\ d # 0 THEN d ELSE DEFAULT_DELAY
\* delay = 20; delay = retry_delay.seconds or delay; min(int(delay), 60)
SleepSecs(hasDelay, d) ==
    LET delay == IF hasDelay /\ d # 0 THEN d ELSE DEFAULT_DELAY
    IN  Min(delay, MAX_SLEEP)

\* (variant: the model is never switched)
Fallback_Stay(m) == m
\* if "pro" in curr_model: curr_model = "gemini-1.5-flash"
Fallback(m) == IF IsPro(m) THEN FLASH_MODEL ELSE m

\* (variant: the exception is always swallowed)
Reraises_Never(m) == FALSE
\* except Exception: ... else: raise
Reraises(m) == ~IsPro(m)

\* entry of the function: attempt = 0; curr_model = model_name
StartCall(name, mr) ==
    /\ model_name' = name
    /\ max_retries' = mr
    /\ attempt' = 0
    /\ curr_model' = name
    /\ callState' = "running"
    /\ exc' = ""
    /\ ret' = <<>>
    /\ log' = <<>>

InLoop == callState = "running" /\ LoopGuard(attempt, max_retries)

\* the request answers with a non-empty text: return resp.text
AttemptReturn(r) ==
    /\ InLoop
    /\ ~IsEmptyResponse(r)
    /\ log' = Append(log, ReqEntry(curr_model, attempt, "text", r.text, FALSE, 0))
    /\ ret' = r.text
    /\ callState' = "returned"
    /\ UNCHANGED <<model_name, max_retries, attempt, curr_model, exc>>
    /\ UNCHANGED mainVars
    /\ UNCHANGED fnVars

\* the except Exception branch, entered for the exception kind `out`
HandleException(out) ==
    /\ log' = Append(log, ReqEntry(curr_model, attempt, out, <<>>, FALSE, 0))
    /\ IF Reraises(curr_model)
       THEN /\ callState' = "raised"
            /\ exc' = out
            /\ UNCHANGED <<attempt, curr_model>>
       ELSE /\ curr_model' = Fallback(curr_model)
            /\ attempt' = attempt + 1
            /\ UNCHANGED <<callState, exc>>
    /\ UNCHANGED <<model_name, max_retries, ret>>
    /\ UNCHANGED mainVars
    /\ UNCHANGED fnVars

\* the request answers without text: RuntimeError("빈 응답"), caught below
AttemptEmpty(r) ==
    /\ InLoop
    /\ IsEmptyResponse(r)
    /\ HandleException("empty")

\* the request raises an exception other than ResourceExhausted
AttemptError ==
    /\ InLoop
    /\ HandleException("error")

\* the request raises ResourceExhausted, with or without retry_delay.seconds
AttemptQuota(hasDelay, d) ==
    /\ InLoop
    /\ log' = log \o <<ReqEntry(curr_model, attempt, "quota", <<>>, hasDelay, d),
                       SleepEntry(attempt, SleepSecs(hasDelay, d))>>
    /\ curr_model' = Fallback(curr_model)
    /\ attempt' = attempt + 1
    /\ UNCHANGED <<model_name, max_retries, callState, exc, ret>>
    /\ UNCHANGED mainVars
    /\ UNCHANGED fnVars

\* the loop ends: raise RuntimeError("Gemini 호출 반복 실패")
Exhausted ==
    /\ callState = "running"
    /\ ~LoopGuard(attempt, max_retries)
    /\ callState' = "raised"
    /\ exc' = "exhausted"
    /\ UNCHANGED <<model_name, max_retries, attempt, curr_model, ret, log>>
    /\ UNCHANGED mainVars
    /\ UNCHANGED fnVars

CallStep ==
    \/ \E r \in Responses : AttemptReturn(r)
    \/ \E r \in Responses : AttemptEmpty(r)
    \/ AttemptError
    \/ \E d \in Delays : AttemptQuota(TRUE, d)
    \/ AttemptQuota(FALSE, 0)
    \/ Exhausted

\* ------------------------------------------------------------------------
\* A stand-alone call: any model name, any max_retries >= 0
\* ------------------------------------------------------------------------
\* no stand-alone function run is in progress
IdleFn ==
    /\ arg = <<>>
    /\ result = PyNone
    /\ trace = <<>>

IdleMain ==
    /\ pc = "call"
    /\ env_model = FLASH_MODEL
    /\ raw = <<>>
    /\ raw2 = <<>>
    /\ wrapper = PyNone
    /\ report = [written |-> FALSE, value |-> PyNone]
    /\ artifact = [written |-> FALSE, content |-> <<>>]
    /\ prevCall = [made |-> FALSE, model |-> <<>>, requests |-> 0, slept |-> 0]

InitCall ==
    /\ model_name \in ModelNames
    /\ max_retries \in 0..MaxRetriesBound
    /\ attempt = 0
    /\ curr_model = model_name
    /\ callState = "running"
    /\ exc = ""
    /\ ret = <<>>
    /\ log = <<>>
    /\ IdleMain
    /\ IdleFn

NextCall == CallStep

SpecCall == InitCall /\ [][NextCall]_vars

\* the loop body always runs to its end: no step of the call blocks forever
FairSpecCall == SpecCall /\ WF_vars(NextCall)

\* ------------------------------------------------------------------------
\* main: call, recover, one compacted retry, report or diagnostic artifact
\* ------------------------------------------------------------------------
\* `"json" in w` raises TypeError when w is not a container or a string
ContainsRaises(w) == w.t \in {"null", "bool", "num"}
\* `"json" in w` for a dict (key), a list (element) or a string (substring)
Contains(w) ==
    CASE w.t = "obj" -> HasKey(w, JSON_KEY)
      [] w.t = "arr" -> \E i \in 1..Len(w.v) : w.v[i].t = "str" /\ w.v[i].v = JSON_KEY
      [] w.t = "str" -> StrIn(JSON_KEY, w.v)
      [] OTHER -> FALSE

\* `not wrapper or "json" not in wrapper`: does evaluating it raise, and
\* its value when it does not
RetryTestRaises(w) == Truthy(w) /\ ContainsRaises(w)
\* (variant: the outcome of recovery is ignored, no retry)
RetryTest_Never(w) == FALSE
RetryTest(w) == ~Truthy(w) \/ ~Contains(w)

\* report = wrapper["json"]: raises TypeError unless wrapper is a dict
ReportRaises(w) == w.t # "obj"
ReportOf(w) == GetKey(w, JSON_KEY)

\* (variant: the first response is dumped)
ArtifactContent_First(r1, r2) == r1
\* f.write(raw2)
ArtifactContent(r1, r2) == r2

\* (variant: the second call goes on with the model the first one ended on)
SecondCallModel_Carry == curr_model
\* os.getenv("MODEL_NAME", "gemini-1.5-flash"), read again for the 2nd call
SecondCallModel == env_model

RECURSIVE SumSecs(_, _)
SumSecs(l, i) == IF i > Len(l) THEN 0 ELSE l[i].secs + SumSecs(l, i + 1)
CallSummary ==
    [made |-> TRUE, model |-> curr_model,
     requests |-> Cardinality({i \in 1..Len(log) : log[i].ev = "req"}),
     slept |-> SumSecs(log, 1)]

\* report = wrapper["json"]; json.dump / print
EmitReport(w) ==
    IF ReportRaises(w)
    THEN /\ pc' = "crashed"
         /\ UNCHANGED report
    ELSE /\ pc' = "done"
         /\ report' = [written |-> TRUE, value |-> ReportOf(w)]

\* the first call returned: recover, then report or start the second call
MainRecoverFirst ==
    /\ pc = "call1"
    /\ callState = "returned"
    /\ raw' = ret
    /\ wrapper' = try_parse_or_coerce(ret)
    /\ IF RetryTestRaises(wrapper')
       THEN /\ pc' = "crashed"
            /\ UNCHANGED <<report, prevCall>>
            /\ UNCHANGED callVars
       ELSE IF RetryTest(wrapper')
       THEN /\ pc' = "call2"
            /\ prevCall' = CallSummary
            /\ StartCall(SecondCallModel, DEFAULT_MAX_RETRIES)
            /\ UNCHANGED report
       ELSE /\ EmitReport(wrapper')
            /\ UNCHANGED prevCall
            /\ UNCHANGED callVars
    /\ UNCHANGED <<env_model, raw2, artifact>>
    /\ UNCHANGED fnVars

\* the second call returned: recover, then report or dump and exit
MainRecoverSecond ==
    /\ pc = "call2"
    /\ callState = "returned"
    /\ raw2' = ret
    /\ wrapper' = try_parse_or_coerce(ret)
    /\ IF RetryTestRaises(wrapper')
       THEN /\ pc' = "crashed"
            /\ UNCHANGED <<report, artifact>>
       ELSE IF RetryTest(wrapper')
       THEN /\ artifact' = [written |-> TRUE, content |-> ArtifactContent(raw, ret)]
            /\ pc' = "fatal"
            /\ UNCHANGED report
       ELSE /\ EmitReport(wrapper')
            /\ UNCHANGED artifact
    /\ UNCHANGED <<env_model, raw, prevCall>>
    /\ UNCHANGED callVars
    /\ UNCHANGED fnVars

\* the call raised: main does not catch it, the run dies with the exception
MainCallFailed ==
    /\ pc \in {"call1", "call2"}
    /\ callState = "raised"
    /\ pc' = "call_failed"
    /\ UNCHANGED <<env_model, raw, raw2, wrapper, report, artifact, prevCall>>
    /\ UNCHANGED callVars
    /\ UNCHANGED fnVars

Init ==
    /\ env_model \in ModelNames
    /\ pc = "call1"
    /\ model_name = env_model
    /\ max_retries = DEFAULT_MAX_RETRIES
    /\ attempt = 0
    /\ curr_model = env_model
    /\ callState = "running"
    /\ exc = ""
    /\ ret = <<>>
    /\ log = <<>>
    /\ raw = <<>>
    /\ raw2 = <<>>
    /\ wrapper = PyNone
    /\ report = [written |-> FALSE, value |-> PyNone]
    /\ artifact = [written |-> FALSE, content |-> <<>>]
    /\ prevCall = [made |-> FALSE, model |-> <<>>, requests |-> 0, slept |-> 0]
    /\ IdleFn

Next ==
    \/ CallStep
    \/ MainRecoverFirst
    \/ MainRecoverSecond
    \/ MainCallFailed

Spec == Init /\ [][Next]_vars

\* ------------------------------------------------------------------------
\* A stand-alone try_parse_or_coerce(raw_text), stage by stage
\* ------------------------------------------------------------------------
\* no call of the model and no pipeline run is in progress
IdleCall ==
    /\ model_name = FLASH_MODEL
    /\ max_retries = 0
    /\ attempt = 0
    /\ curr_model = FLASH_MODEL
    /\ callState = "idle"
    /\ exc = ""
    /\ ret = <<>>
    /\ log = <<>>
IdlePipeline ==
    /\ env_model = FLASH_MODEL
    /\ raw = <<>>
    /\ raw2 = <<>>
    /\ wrapper = PyNone
    /\ report = [written |-> FALSE, value |-> PyNone]
    /\ artifact = [written |-> FALSE, content |-> <<>>]
    /\ prevCall = [made |-> FALSE, model |-> <<>>, requests |-> 0, slept |-> 0]

\* (variant: the scoring stage is tried before the single-block stage)
LadderOrder_Swapped == <<1, 3, 2, 4>>
\* the textual order of the four stages in the function body
LadderOrder == <<1, 2, 3, 4>>

InitRecover ==
    /\ pc = "recover"
    /\ arg \in RecoverTexts
    /\ result = PyNone
    /\ trace = <<>>
    /\ IdleCall
    /\ IdlePipeline

\* evaluate the next stage: return its value, or fall through to the next
StageDone(k, r) ==
    /\ trace' = Append(trace, k)
    /\ IF r.ok
       THEN /\ result' = r.val
            /\ pc' = "recovered"
       ELSE UNCHANGED <<result, pc>>

RecoverStep ==
    /\ pc = "recover"
    /\ Len(trace) < Len(LadderOrder)
    /\ LET k == LadderOrder[Len(trace) + 1]
       IN  StageDone(k, StageResult(k, arg))
    /\ UNCHANGED arg
    /\ UNCHANGED <<env_model, raw, raw2, wrapper, report, artifact, prevCall>>
    /\ UNCHANGED callVars

NextRecover == RecoverStep

SpecRecover == InitRecover /\ [][NextRecover]_vars

\* ------------------------------------------------------------------------
\* shrink_events on its own: any event list, any max_items
\* ------------------------------------------------------------------------
InitShrink ==
    /\ pc = "shrink"
    /\ arg \in [events : SeqsUpTo(Events, MaxEvents), max_items : 0..MaxItemsBound]
    /\ result = PyNone
    /\ trace = <<>>
    /\ IdleCall
    /\ IdlePipeline

ShrinkStep ==
    /\ pc = "shrink"
    /\ result' = shrink_events(arg.events, arg.max_items)
    /\ pc' = "shrunk"
    /\ UNCHANGED <<arg, trace>>
    /\ UNCHANGED <<env_model, raw, raw2, wrapper, report, artifact, prevCall>>
    /\ UNCHANGED callVars

NextShrink == ShrinkStep

SpecShrink == InitShrink /\ [][NextShrink]_vars

\* ------------------------------------------------------------------------
\* stage 3 on its own: any list of candidate blocks
\* ------------------------------------------------------------------------
InitPick ==
    /\ pc = "pick"
    /\ arg \in SeqsUpTo(PickTexts, MaxCands)
    /\ result = PyNone
    /\ trace = <<>>
    /\ IdleCall
    /\ IdlePipeline

PickStep ==
    /\ pc = "pick"
    /\ result' = score_and_pick(arg)
    /\ pc' = "picked"
    /\ UNCHANGED <<arg, trace>>
    /\ UNCHANGED <<env_model, raw, raw2, wrapper, report, artifact, prevCall>>
    /\ UNCHANGED callVars

NextPick == PickStep

SpecPick == InitPick /\ [][NextPick]_vars

\* ------------------------------------------------------------------------
\* wrap_if_needed on its own: any parsed value, applied twice in a row
\* ------------------------------------------------------------------------
EXTRA == <<"e", "x", "t", "r", "a">>
\* the objects over the keys json, story, coaching, highlights, metrics and
\* extra, every value 1 except that `json` may also hold an object
ObjectsOver(keys) ==
    {PyDict([k \in ks |-> IF k = JSON_KEY THEN j ELSE PyNum(1, FALSE)]) :
        ks \in SUBSET keys, j \in {PyNum(1, FALSE), PyDict(EmptyDict)}}
NormalizeInputs ==
    ObjectsOver(Expected \cup {JSON_KEY, EXTRA})
    \cup {PyNone, PyBool(TRUE), PyNum(0, FALSE), PyStr(JSON_KEY),
          PyList(<<PyStr(JSON_KEY)>>), PyList(<<>>)}

InitNormalize ==
    /\ pc = "normalize"
    /\ arg \in NormalizeInputs
    /\ result = PyNone
    /\ trace = <<>>
    /\ IdleCall
    /\ IdlePipeline

\* result = wrap_if_needed(x), x being arg the first time and the previous
\* result the second time; trace keeps the inputs
NormalizeStep ==
    /\ pc \in {"normalize", "normalized"}
    /\ LET x == IF pc = "normalize" THEN arg ELSE result
       IN  /\ result' = wrap_if_needed(x)
           /\ trace' = Append(trace, x)
    /\ pc' = IF pc = "normalize" THEN "normalized" ELSE "renormalized"
    /\ UNCHANGED arg
    /\ UNCHANGED <<env_model, raw, raw2, wrapper, report, artifact, prevCall>>
    /\ UNCHANGED callVars

NextNormalize == NormalizeStep

SpecNormalize == InitNormalize /\ [][NextNormalize]_vars

\* ------------------------------------------------------------------------
\* naive_json_repair on its own: any text
\* ------------------------------------------------------------------------
InitRepair ==
    /\ pc = "repair"
    /\ arg \in RecoverTexts
    /\ result = PyNone
    /\ trace = <<>>
    /\ IdleCall
    /\ IdlePipeline

RepairStep ==
    /\ pc = "repair"
    /\ result' = naive_json_repair(arg)
    /\ pc' = "repaired"
    /\ UNCHANGED <<arg, trace>>
    /\ UNCHANGED <<env_model, raw, raw2, wrapper, report, artifact, prevCall>>
    /\ UNCHANGED callVars

NextRepair == RepairStep

SpecRepair == InitRepair /\ [][NextRepair]_vars

\* ------------------------------------------------------------------------
\* extract_top_level_json on its own: any text
\* ------------------------------------------------------------------------
InitExtract ==
    /\ pc = "extract"
    /\ arg \in ExtractTexts
    /\ result = PyNone
    /\ trace = <<>>
    /\ IdleCall
    /\ IdlePipeline

ExtractStep ==
    /\ pc = "extract"
    /\ result' = extract_top_level_json(arg)
    /\ pc' = "extracted"
    /\ UNCHANGED <<arg, trace>>
    /\ UNCHANGED <<env_model, raw, raw2, wrapper, report, artifact, prevCall>>
    /\ UNCHANGED callVars

NextExtract == ExtractStep

SpecExtract == InitExtract /\ [][NextExtract]_vars

\* ------------------------------------------------------------------------
\* Properties of one call
\* ------------------------------------------------------------------------
Done == callState \in {"returned", "raised"}
ReqIdx == {i \in 1..Len(log) : log[i].ev = "req"}
SleepIdx == {i \in 1..Len(log) : log[i].ev = "sleep"}
NumRequests == Cardinality(ReqIdx)
AllAttemptsFailed ==
    /\ NumRequests = max_retries + 1
    /\ \A i \in ReqIdx : log[i].out # "text"

\* C1: one call issues at most max_retries+1 requests, always terminates
\* (returns a text or raises), and when all max_retries+1 attempts ended
\* without a success it ends by raising, never by returning.
C1_BoundedTermination ==
    /\ [](NumRequests <= max_retries + 1)
    /\ <>Done
    /\ [](AllAttemptsFailed => (callState # "returned" /\ <>(callState = "raised")))

C1_Witness ==
    /\ max_retries >= 1
    /\ AllAttemptsFailed
    /\ callState = "raised"
    /\ exc = "exhausted"

\* C3: a non-quota error of a request on the lower tier is propagated at
\* once: that request is the last entry of the history (no request and no
\* sleep after it) and the call has raised, however many attempts remain.
C3_FlashErrorPropagates ==
    \A i \in ReqIdx :
        (~IsPro(log[i].model) /\ log[i].out = "error")
            => (i = Len(log) /\ callState = "raised" /\ exc = "error")

C3_Witness ==
    /\ Len(log) >= 3
    /\ log[Len(log)].ev = "req"
    /\ log[Len(log)].out = "error"
    /\ ~IsPro(log[Len(log)].model)
    /\ log[Len(log)].attempt < max_retries
    /\ callState = "raised"

\* C4 (as claimed): every non-quota error of a request on the higher tier is
\* followed by a request on the lower tier before the call ends, for every
\* max_retries >= 0.
C4_AsClaimed ==
    \A i \in ReqIdx :
        (IsPro(log[i].model) /\ log[i].out = "error" /\ Done)
            => \E j \in ReqIdx : j > i /\ ~IsPro(log[j].model)

\* C4 (amended): a non-quota error of a request on the higher tier that is
\* not the last permitted attempt (attempt < max_retries) is followed
\* directly by a request on gemini-1.5-flash; on the last permitted attempt
\* the call ends by raising without a further request.
C4_DowngradeAndRetry ==
    \A i \in ReqIdx :
        (IsPro(log[i].model) /\ log[i].out = "error") =>
            /\ (i < Len(log) => (log[i + 1].ev = "req" /\ log[i + 1].model = FLASH_MODEL))
            /\ (Done => IF log[i].attempt < max_retries
                        THEN i < Len(log)
                        ELSE i = Len(log) /\ callState = "raised" /\ exc = "exhausted")

C4_Witness ==
    /\ Done
    /\ Len(log) >= 2
    /\ IsPro(log[1].model)
    /\ log[1].out = "error"
    /\ log[2].ev = "req"
    /\ log[2].model = FLASH_MODEL

\* C5 (as claimed): every sleep directly follows a quota-exceeded request
\* and lasts exactly min(d, 60) seconds when the server suggested d >= 0
\* seconds, exactly 20 seconds when it suggested nothing; never above 60.
C5_AsClaimed ==
    /\ \A i \in SleepIdx :
        /\ i > 1
        /\ log[i - 1].ev = "req"
        /\ log[i - 1].out = "quota"
        /\ log[i].secs = IF log[i - 1].hasDelay
                         THEN Min(log[i - 1].d, MAX_SLEEP)
                         ELSE DEFAULT_DELAY
        /\ log[i].secs <= MAX_SLEEP
    /\ \A i \in ReqIdx :
        log[i].out = "quota" => (i < Len(log) /\ log[i + 1].ev = "sleep")

\* C6 (as claimed): after each quota-exceeded request the caller sleeps once
\* and then issues a further request before the call ends, on the lower tier
\* if the failed request was on the higher tier.
C6_AsClaimed ==
    \A i \in ReqIdx :
        log[i].out = "quota" =>
            /\ i < Len(log)
            /\ log[i + 1].ev = "sleep"
            /\ (Done => /\ i + 2 <= Len(log)
                        /\ log[i + 2].ev = "req"
                        /\ (IsPro(log[i].model) => ~IsPro(log[i + 2].model)))

\* pro tier, max_retries = 2, quota-exceeded with delay 5, then a text
ScenarioD ==
    /\ model_name = PRO_MODEL
    /\ max_retries = 2
    /\ Len(log) = 3
    /\ log[1].out = "quota"
    /\ log[1].hasDelay
    /\ log[1].d = 5
    /\ log[3].out = "text"

\* C6 (amended): after each quota-exceeded request the caller sleeps exactly
\* once; a further request follows (on gemini-1.5-flash if the failed request
\* was on the higher tier, on the same model otherwise) exactly when the
\* failed request was not the last permitted attempt; after the last
\* permitted attempt the call sleeps and then raises.  In scenario D the
\* caller sleeps at most 5 seconds, asks gemini-1.5-flash and returns the
\* second text.
C6_SleepThenRetry ==
    /\ \A i \in ReqIdx :
        log[i].out = "quota" =>
            /\ i < Len(log)
            /\ log[i + 1].ev = "sleep"
            /\ (i + 2 <= Len(log) =>
                    /\ log[i + 2].ev = "req"
                    /\ log[i + 2].model =
                         IF IsPro(log[i].model) THEN FLASH_MODEL ELSE log[i].model)
            /\ (Done => IF log[i].attempt < max_retries
                        THEN i + 2 <= Len(log)
                        ELSE i + 1 = Len(log) /\ callState = "raised")
    /\ ScenarioD =>
            /\ log[2].ev = "sleep"
            /\ log[2].secs <= 5
            /\ log[3].model = FLASH_MODEL
            /\ callState = "returned"
            /\ ret = log[3].text

C6_Witness == ScenarioD /\ callState = "returned"

\* C7: a call never returns an empty or missing text: what it returns is the
\* non-empty text of the last request issued; an empty or missing response
\* is handled like a non-quota error (on the lower tier the call raises at
\* once, on the higher tier it downgrades and goes on without sleeping).
C7_NoEmptyText ==
    /\ callState = "returned" =>
            /\ Len(ret) > 0
            /\ Len(log) > 0
            /\ log[Len(log)].ev = "req"
            /\ log[Len(log)].out = "text"
            /\ ret = log[Len(log)].text
    /\ \A i \in ReqIdx : log[i].out = "text" =>
            (Len(log[i].text) > 0 /\ i = Len(log) /\ callState = "returned")
    /\ \A i \in ReqIdx : log[i].out = "empty" =>
            IF IsPro(log[i].model)
            THEN /\ (i < Len(log) =>
                        (log[i + 1].ev = "req" /\ log[i + 1].model = FLASH_MODEL))
                 /\ (Done => IF log[i].attempt < max_retries
                             THEN i < Len(log)
                             ELSE i = Len(log) /\ callState = "raised")
            ELSE i = Len(log) /\ callState = "raised" /\ exc = "empty"

C7_Witness ==
    /\ callState = "returned"
    /\ Len(log) = 2
    /\ log[1].out = "empty"
    /\ IsPro(log[1].model)
    /\ ret = log[2].text

\* ------------------------------------------------------------------------
\* Properties of the pipeline
\* ------------------------------------------------------------------------
\* C2: within one call the first request goes to the model name the caller
\* gave, and after a request on the lower tier (no "pro" in its name) every
\* later request of that call is on the lower tier; every call of the
\* pipeline, the second included, is started with the configured model
\* name, whatever model the previous call ended on.
C2_TierMonotone ==
    /\ Len(log) > 0 => (log[1].ev = "req" /\ log[1].model = model_name)
    /\ \A i \in ReqIdx : \A j \in ReqIdx :
            (i < j /\ ~IsPro(log[i].model)) => ~IsPro(log[j].model)
    /\ model_name = env_model

C2_Witness ==
    /\ pc = "call2"
    /\ prevCall.made
    /\ IsPro(env_model)
    /\ prevCall.model = FLASH_MODEL
    /\ Len(log) >= 3
    /\ log[1].model = env_model
    /\ \E i \in ReqIdx : \E j \in ReqIdx :
            i < j /\ log[i].model = FLASH_MODEL /\ log[j].model = FLASH_MODEL

\* a recovered value is a Wrapper when it is an object with a `json` key
IsWrapper(w) == w.t = "obj" /\ HasKey(w, JSON_KEY)
\* recovery of a raw text failed: no result, or no `json` key
RecoveryFailed(text) == ~IsWrapper(try_parse_or_coerce(text))

\* C8 (as claimed): the second call is made if and only if the first call
\* returned a text whose recovery failed (no result, or no `json` key), and
\* once the second response has been received no call is running any more.
C8_AsClaimed ==
    /\ Len(raw) = 0 => ~prevCall.made
    /\ Len(raw) > 0 => (prevCall.made <=> RecoveryFailed(raw))
    /\ Len(raw2) > 0 => (prevCall.made /\ callState = "returned")

\* C9 (as claimed): the diagnostic artifact is written if and only if
\* recovery failed for the first and for the second raw response; its
\* content is the second raw text; when it is written the run has ended
\* with the fatal error and no report has been written.
C9_AsClaimed ==
    /\ Len(raw2) = 0 => ~artifact.written
    /\ Len(raw2) > 0 =>
            (artifact.written <=> (RecoveryFailed(raw) /\ RecoveryFailed(raw2)))
    /\ artifact.written =>
            (artifact.content = raw2 /\ pc = "fatal" /\ ~report.written)

\* C10 (as claimed): once the responses are in, a run either emits a report
\* or fails with the fatal error; it never dies of another error on a
\* recovered value of unexpected shape, and what it emits is the `json`
\* value of a recovered Wrapper, that value being an object.
C10_AsClaimed ==
    /\ pc # "crashed"
    /\ pc = "done" <=> report.written
    /\ ~(report.written /\ artifact.written)
    /\ report.written =>
            /\ IsWrapper(wrapper)
            /\ GetKey(wrapper, JSON_KEY).t = "obj"
            /\ report.value = GetKey(wrapper, JSON_KEY)

\* ------------------------------------------------------------------------
\* Properties of try_parse_or_coerce
\* ------------------------------------------------------------------------
\* the result of stage k after normalization, None when the stage failed
NormStage(k, t) ==
    LET r == StageResult(k, t)
    IN  IF r.ok THEN wrap_if_needed(r.val) ELSE PyNone
\* the stages whose normalized result contains a `json` key
WrapperStages(t) == {k \in 1..4 : IsWrapper(NormStage(k, t))}

\* C11 (as claimed): recover returns the normalized result of the
\* lowest-numbered stage whose result contains a `json` key, and None only
\* when no stage yields such a result; so a result other than None always
\* contains a `json` key.
C11_AsClaimed ==
    pc = "recovered" =>
        /\ IF WrapperStages(arg) = {}
           THEN result.t = "null"
           ELSE LET k == CHOOSE x \in WrapperStages(arg) :
                            \A y \in WrapperStages(arg) : x <= y
                IN  result = NormStage(k, arg)
        /\ (result.t # "null" => IsWrapper(result))

\* an object with the four Report fields
IsReport(v) == IsDict(v) /\ Expected \subseteq DOMAIN v.v
\* such an object handed over without the `json` key around it
IsBareReport(v) == IsReport(v) /\ ~HasKey(v, JSON_KEY)

\* C12 (as claimed): whichever stage produced it, recover never returns an
\* object that has the four Report fields and no `json` key: such an
\* object comes back wrapped as {json: obj}.
C12_AsClaimed == pc = "recovered" => ~IsBareReport(result)

\* {json: Report} and nothing else
IsValidWrapper(v) ==
    /\ IsDict(v)
    /\ DOMAIN v.v = {JSON_KEY}
    /\ IsReport(GetKey(v, JSON_KEY))
\* the text t with n closing braces put back, parsed
Restored(t, n) == json_loads(t \o [i \in 1..n |-> "}"])
\* t is a valid Wrapper text that lost its final closing brace
IsCutWrapper(t) == Restored(t, 1).ok /\ IsValidWrapper(Restored(t, 1).val)
\* position i of t lies inside a string literal
InString(t, i) == t[i] # "\"" /\ Count(SubSeq(t, 1, i - 1), "\"") % 2 = 1
\* some string literal of t holds a brace or an opening bracket
StructuralInString(t) ==
    \E i \in 1..Len(t) : t[i] \in {"{", "}", "["} /\ InString(t, i)

\* what C18 promises for the text in arg
CutWrapperRecovered ==
    /\ trace = <<1, 2, 3, 4>>
    /\ LET cands == find_all_top_level_json(arg)
       IN  \A i \in 1..Len(cands) : ~json_loads(cands[i]).ok
    /\ result = Restored(arg, 1).val

\* C18 (as claimed): for a valid Wrapper text without its final closing
\* brace, stages 1, 2 and 3 fail (no candidate of extractAll parses),
\* stage 4 succeeds and returns the original Wrapper.
C18_AsClaimed == (pc = "recovered" /\ IsCutWrapper(arg)) => CutWrapperRecovered

\* C18 (amended): the same, for Wrapper texts none of whose string literals
\* holds a brace or an opening square bracket (or an escaped quote).
C18_CutWrapperRepaired ==
    (pc = "recovered" /\ IsCutWrapper(arg) /\ ~StructuralInString(arg))
        => CutWrapperRecovered

C18_Witness ==
    /\ pc = "recovered"
    /\ IsCutWrapper(arg)
    /\ ~StructuralInString(arg)
    /\ \E i \in 1..Len(arg) : InString(arg, i)
    /\ trace = <<1, 2, 3, 4>>
    /\ IsValidWrapper(result)

\* stage k does not return: json.loads raises (1, 2), no truthy best (3)
StageFails(k, t) ==
    CASE k = 1 -> ~json_loads(t).ok
      [] k = 2 -> ~json_loads(extract_top_level_json(t)).ok
      [] k = 3 -> ~Truthy(PickBest(find_all_top_level_json(t), 1, PyNone, -1))
      [] k = 4 -> FALSE

\* C20: the stages are evaluated in the order 1, 2, 3, 4; a stage is
\* evaluated only after all earlier stages failed and the ladder stops at
\* the first stage that succeeds (a text that is exactly a valid Wrapper is
\* returned by stage 1 alone); the function always ends by returning a
\* value, None standing for failure.
C20_LadderOrder ==
    /\ \A i \in 1..Len(trace) : trace[i] = i
    /\ \A i \in 1..Len(trace) : \A j \in 1..(i - 1) : StageFails(j, arg)
    /\ pc = "recover" =>
            (Len(trace) < 4 /\ \A i \in 1..Len(trace) : StageFails(i, arg))
    /\ pc = "recovered" =>
            /\ Len(trace) >= 1
            /\ ~StageFails(Len(trace), arg)
            /\ result = try_parse_or_coerce(arg)
    /\ (pc = "recovered" /\ json_loads(arg).ok /\ IsValidWrapper(json_loads(arg).val))
            => (trace = <<1>> /\ result = json_loads(arg).val)
    /\ pc \in {"recover", "recovered"}

C20_Witness ==
    /\ pc = "recovered"
    /\ trace = <<1, 2, 3>>
    /\ IsWrapper(result)

\* ------------------------------------------------------------------------
\* Properties of shrink_events
\* ------------------------------------------------------------------------
InSeq(q, e) == \E i \in 1..Len(q) : q[i] = e
ProtectedIdx(events) == {i \in 1..Len(events) : IsProtected(events[i])}
\* the order load_events leaves the events in: by ts, events without ts last
IsSortedByTs(events) ==
    \A i, j \in 1..Len(events) : i < j => SortKey(events[i]) <= SortKey(events[j])

\* C13 (as claimed): for more than max_items events of which fewer than
\* max_items are protected, with pairwise distinct keys, the output of
\* shrink contains every protected event of the input (here even for
\* inputs already in the order of load_events).
C13_AsClaimed ==
    (/\ pc = "shrunk"
     /\ Len(arg.events) > arg.max_items
     /\ Cardinality(ProtectedIdx(arg.events)) < arg.max_items
     /\ \A i, j \in ProtectedIdx(arg.events) :
            i # j => EventKey(arg.events[i]) # EventKey(arg.events[j])
     /\ IsSortedByTs(arg.events))
        => \A i \in ProtectedIdx(arg.events) : InSeq(result, arg.events[i])

\* C14: for every event sequence and every max_items >= 0 the output of
\* shrink has at most max_items events, each of them an event of the input.
C14_BoundedSubset ==
    pc = "shrunk" =>
        /\ Len(result) <= arg.max_items
        /\ \A i \in 1..Len(result) : InSeq(arg.events, result[i])

C14_Witness ==
    /\ pc = "shrunk"
    /\ arg.max_items = 3
    /\ Len(arg.events) = 4
    /\ Len(result) = 3
    /\ \E i \in 1..4 : ~InSeq(result, arg.events[i])

\* ------------------------------------------------------------------------
\* Properties of stage 3 (scoreAndPick)
\* ------------------------------------------------------------------------
\* an object with the `json` key and all four Report fields under it
IsFullWrapper(v) ==
    /\ IsDict(v)
    /\ HasKey(v, JSON_KEY)
    /\ IsReport(GetKey(v, JSON_KEY))
\* the candidates that parse, and what they parse to
ParsedIdx(cands) == {i \in 1..Len(cands) : json_loads(cands[i]).ok}
ParsedVal(cands, i) == json_loads(cands[i]).val
NormVal(cands, i) == wrap_if_needed(ParsedVal(cands, i))

\* C15 (as claimed): when exactly one of several candidates parses to an
\* object with the `json` key and all four Report fields under it,
\* scoreAndPick returns that candidate's object, wherever it stands and
\* whatever the others are (bare reports without a `json` key included).
C15_AsClaimed ==
    (pc = "picked" /\ Len(arg) >= 2) =>
        LET full == {i \in ParsedIdx(arg) : IsFullWrapper(ParsedVal(arg, i))}
        IN  Cardinality(full) = 1 =>
                \A i \in full : result = ParsedVal(arg, i)

\* C15 (amended): when exactly one of several candidates parses to an
\* object that after normalization has the `json` key and all four Report
\* fields under it (a full wrapper or a bare object with the four fields),
\* scoreAndPick returns that candidate's normalized object, wherever it
\* stands and whatever the others are.
C15_UniqueFullWins ==
    (pc = "picked" /\ Len(arg) >= 2) =>
        LET full == {i \in ParsedIdx(arg) : IsFullWrapper(NormVal(arg, i))}
        IN  Cardinality(full) = 1 =>
                \A i \in full : result = NormVal(arg, i)

C15_Witness ==
    /\ pc = "picked"
    /\ Len(arg) = 3
    /\ \A i \in 1..2 : i \in ParsedIdx(arg) /\ ~IsFullWrapper(NormVal(arg, i))
    /\ 3 \in ParsedIdx(arg)
    /\ IsFullWrapper(ParsedVal(arg, 3))
    /\ result = ParsedVal(arg, 3)

\* C16 (as claimed): scoreAndPick returns the normalized object of the
\* first candidate of maximum score among those that parse, and none if
\* and only if no candidate parsed.
C16_AsClaimed ==
    pc = "picked" =>
        IF ParsedIdx(arg) = {}
        THEN result.t = "null"
        ELSE /\ result.t # "null"
             /\ \E i \in ParsedIdx(arg) :
                    /\ result = NormVal(arg, i)
                    /\ \A j \in ParsedIdx(arg) :
                           /\ Score(NormVal(arg, j)) <= Score(NormVal(arg, i))
                           /\ j < i => Score(NormVal(arg, j)) < Score(NormVal(arg, i))

\* ------------------------------------------------------------------------
\* Properties of wrap_if_needed (normalize)
\* ------------------------------------------------------------------------
\* the input of the latest application
LastInput == trace[Len(trace)]
\* result is {json: x}
IsWrapOf(x) ==
    /\ IsDict(result)
    /\ DOMAIN result.v = {JSON_KEY}
    /\ GetKey(result, JSON_KEY) = x

\* C17: normalize(obj) is {json: obj} exactly when obj is an object without
\* a `json` key that has all of story, coaching, highlights, metrics; in
\* every other case it is obj unchanged; applied to its own result it
\* changes nothing.
C17_WrapExactlyBare ==
    /\ pc \in {"normalized", "renormalized"} =>
            IF IsDict(LastInput) /\ ~HasKey(LastInput, JSON_KEY)
               /\ \A k \in Expected : HasKey(LastInput, k)
            THEN IsWrapOf(LastInput)
            ELSE result = LastInput
    /\ pc = "renormalized" => result = trace[2]

C17_Witness ==
    /\ pc = "renormalized"
    /\ IsDict(arg)
    /\ HasKey(arg, EXTRA)
    /\ ~HasKey(arg, JSON_KEY)
    /\ trace[2] # arg
    /\ IsWrapOf(arg)

\* ------------------------------------------------------------------------
\* Properties of naive_json_repair (repair)
\* ------------------------------------------------------------------------
\* t is a valid JSON object without its final two closing braces (the cut
\* then lies outside every string literal)
IsCutTwice(t) == Restored(t, 2).ok /\ IsDict(Restored(t, 2).val)

\* C19 (as claimed): for every fragment obtained from a valid JSON object
\* by removing its final two closing braces, repair returns a parse, and
\* the parsed value equals the original object.
C19_AsClaimed ==
    (pc = "repaired" /\ IsCutTwice(arg)) => result = Restored(arg, 2).val

\* C19 (amended): the same, for objects none of whose string literals
\* holds a brace or an opening square bracket (or an escaped quote).
C19_TwoBracesRepaired ==
    (pc = "repaired" /\ IsCutTwice(arg) /\ ~StructuralInString(arg))
        => result = Restored(arg, 2).val

C19_Witness ==
    /\ pc = "repaired"
    /\ IsCutTwice(arg)
    /\ ~StructuralInString(arg)
    /\ \E i \in 1..Len(arg) : arg[i] = "]" /\ InString(arg, i)
    /\ IsValidWrapper(result)

\* ------------------------------------------------------------------------
\* Properties of extract_top_level_json (extractFirst)
\* ------------------------------------------------------------------------
\* the text after trimming and fence stripping
TrimmedText(t) == StripTrailingFence(StripLeadingFence(Strip(t)))
\* the indices of the opening braces of s
OpenIdx(s) == {i \in 1..Len(s) : s[i] = "{"}
FirstOpen(s) == CHOOSE i \in OpenIdx(s) : \A j \in OpenIdx(s) : i <= j
\* the closing braces from index a on at which as many braces have been
\* closed as opened since a
BalancedCloseIdx(s, a) ==
    {i \in a..Len(s) :
        /\ s[i] = "}"
        /\ Count(SubSeq(s, a, i), "{") = Count(SubSeq(s, a, i), "}")}

\* C21: with s the trimmed, fence-stripped text, extractFirst returns the
\* substring from the first opening brace to the first closing brace at
\* which the depth is back to zero; without an opening brace, or when the
\* depth never returns to zero, it returns s; a closing brace in front of
\* the first opening brace has no effect.
C21_FirstBalancedSpan ==
    pc = "extracted" =>
        LET s == TrimmedText(arg)
        IN  IF OpenIdx(s) = {} THEN result = s
            ELSE LET a == FirstOpen(s)
                     closes == BalancedCloseIdx(s, a)
                 IN  IF closes = {} THEN result = s
                     ELSE /\ result = SubSeq(s, a, CHOOSE i \in closes : \A j \in closes : i <= j)
                          /\ result = extract_top_level_json(Drop(s, a - 1))

C21_Witness ==
    /\ pc = "extracted"
    /\ arg[1] = "}"
    /\ Count(result, "{") = 2
    /\ Count(result, "}") = 2
    /\ Len(result) < Len(arg) - 2

\* ---- sleep budget ----

\* within the running call: no more sleeps than requests, no more requests
\* than max_retries+1, each sleep directly after a quota-exceeded request
SleepsFollowQuota ==
    \A i \in SleepIdx :
        /\ i > 1
        /\ log[i - 1].ev = "req"
        /\ log[i - 1].out = "quota"
        /\ log[i].secs <= MAX_SLEEP
PerCallSleepBudget ==
    /\ Cardinality(SleepIdx) <= NumRequests
    /\ NumRequests <= max_retries + 1
    /\ SumSecs(log, 1) <= MAX_SLEEP * (max_retries + 1)
    /\ SleepsFollowQuota

\* C22: in one call the number of backoff sleeps is at most the number of
\* requests issued (at most max_retries+1), so the time slept in one call is
\* at most 60 x (max_retries+1) seconds and in one pipeline run (two calls)
\* at most 2 x 60 x (max_retries+1) seconds; a sleep only ever occurs
\* directly after a quota-exceeded signal.
C22_SleepBudget ==
    /\ PerCallSleepBudget
    /\ prevCall.requests <= DEFAULT_MAX_RETRIES + 1
    /\ prevCall.slept <= MAX_SLEEP * (DEFAULT_MAX_RETRIES + 1)
    /\ prevCall.slept + SumSecs(log, 1) <= 2 * MAX_SLEEP * (max_retries + 1)

\* both calls of one run slept, the second one the full per-call budget
C22_Witness ==
    /\ pc = "call_failed"
    /\ prevCall.made
    /\ prevCall.slept > MAX_SLEEP
    /\ Cardinality(SleepIdx) = max_retries + 1
    /\ SumSecs(log, 1) = MAX_SLEEP * (max_retries + 1)
    /\ prevCall.slept + SumSecs(log, 1) > MAX_SLEEP * (max_retries + 1)

====
